---- MODULE Spec2Model ----
(***************************************************************************)
(* Two programs of the repository, each a state machine of its own:       *)
(*   - the movie recommendation system (RatingRegister and                *)
(*     MovieRecommendation), specification Spec;                          *)
(*   - the bank system (Bank, BankBranch, AccountManager,                 *)
(*     TransactionManager), specification BankSpec.                       *)
(* Python values are modelled by what they are: a list is a sequence, a   *)
(* dict is the sequence of its (key, value) entries in insertion order,   *)
(* an object is the record of its fields, an Enum member is the record of *)
(* its name and value, and a value returned to the caller carries its     *)
(* Python type.                                                           *)
(***************************************************************************)
EXTENDS Integers, Sequences, FiniteSets, TLC

VARIABLES
    _user_movies,    \* RatingRegister._user_movies: dict user id -> list of Movie
    _movie_ratings,  \* RatingRegister._movie_ratings: dict movie id -> dict user id -> MovieRating
    _movies,         \* RatingRegister._movies: list of Movie
    _users,          \* RatingRegister._users: list of User
    calls,           \* history: the add_rating calls made so far, in order
    _branches,       \* Bank._branches: list of BankBranch
    _accounts,       \* AccountManager._accounts: list of BankAccount
    _transactions,   \* TransactionManager._transactions: list of Transaction
    last             \* history: the last BankBranch/Bank call and how it ended

movie_vars == <<_user_movies, _movie_ratings, _movies, _users, calls>>
bank_vars == <<_branches, _accounts, _transactions, last>>
vars == <<_user_movies, _movie_ratings, _movies, _users, calls,
          _branches, _accounts, _transactions, last>>

----------------------------------------------------------------------------
(* Bounds of the model.                                                    *)

\* add_rating calls in one run
MaxCalls == 3

\* transactions in the log
MaxLog == 3

----------------------------------------------------------------------------
(* Python built-ins.                                                       *)

\* The elements of a list, as set(list) builds them.
SetOf(s) == {s[i] : i \in 1..Len(s)}

\* k in d
DictHas(d, k) == \E i \in 1..Len(d) : d[i].key = k

\* d[k], for a key that is present (a missing key raises KeyError: see the
\* Raises_ definitions, which state when a lookup of the code is reached
\* with a missing key).
DictGet(d, k) == d[CHOOSE i \in 1..Len(d) : d[i].key = k].val

\* d.get(k, default)
DictGetDefault(d, k, default) == IF DictHas(d, k) THEN DictGet(d, k) ELSE default

\* d[k] = v: the value of an existing key is replaced in place, a new key is
\* added at the end.
DictSet(d, k, v) ==
    IF DictHas(d, k)
    THEN [i \in 1..Len(d) |-> IF d[i].key = k THEN [key |-> k, val |-> v] ELSE d[i]]
    ELSE Append(d, [key |-> k, val |-> v])

\* d.values(), in insertion order
DictValues(d) == [i \in 1..Len(d) |-> d[i].val]

\* abs(x)
Abs(x) == IF x < 0 THEN -x ELSE x

\* sum() of a sequence of integers
RECURSIVE SumSeq(_)
SumSeq(s) == IF s = <<>> THEN 0 ELSE Head(s) + SumSeq(Tail(s))

\* None
None == [type |-> "NoneType"]

\* a str value
Str(s) == [type |-> "str", str |-> s]

\* a reference to a Movie object
MovieRef(m) == [type |-> "Movie", movie |-> m]

\* float("inf") and a finite number, as _calculate_similarity returns them
Inf == [inf |-> TRUE, num |-> 0]
Num(n) == [inf |-> FALSE, num |-> n]

\* a < b on these numbers
Less(a, b) == ~a.inf /\ (b.inf \/ a.num < b.num)

----------------------------------------------------------------------------
(* The movie recommendation system: its objects.                           *)

\* class MovieRating(Enum)
NOT_RATED == [name |-> "NOT_RATED", value |-> 0]
ONE == [name |-> "ONE", value |-> 1]
TWO == [name |-> "TWO", value |-> 2]
THREE == [name |-> "THREE", value |-> 3]
FOUR == [name |-> "FOUR", value |-> 4]
FIVE == [name |-> "FIVE", value |-> 5]
MovieRating == {NOT_RATED, ONE, TWO, THREE, FOUR, FIVE}

\* The users and two of the movies of the demo.  Ids are unique, so one
\* object stands for one id and object identity (Movie defines no __eq__) is
\* record equality.
Users == {[id |-> 1, name |-> "Alice"], [id |-> 2, name |-> "Bob"],
          [id |-> 3, name |-> "Charlie"]}
Movies == {[id |-> 1, title |-> "Inception"], [id |-> 2, title |-> "Titanic"]}

\* The ratings passed to add_rating in the model: the sentinel and two scores.
RatingInputs == {NOT_RATED, THREE, FIVE}

----------------------------------------------------------------------------
(* RatingRegister                                                          *)

\* lines 83-85: a movie seen for the first time gets an empty rating dict
RegisterMovieRatings(movie) ==
    IF ~DictHas(_movie_ratings, movie.id)
    THEN DictSet(_movie_ratings, movie.id, <<>>)
    ELSE _movie_ratings

\* ... and is appended to the catalog
RegisterMovie(movie) ==
    IF ~DictHas(_movie_ratings, movie.id) THEN Append(_movies, movie) ELSE _movies

\* lines 87-89: a user seen for the first time gets an empty movie list
RegisterUserMovies(user) ==
    IF ~DictHas(_user_movies, user.id)
    THEN DictSet(_user_movies, user.id, <<>>)
    ELSE _user_movies

\* ... and is appended to the user list
RegisterUser(user) ==
    IF ~DictHas(_user_movies, user.id) THEN Append(_users, user) ELSE _users

\* Faulty variant of line 91: the list is replaced, not extended.
AppendUserMovie_Replace(um, user, movie) == DictSet(um, user.id, <<movie>>)

\* line 91
AppendUserMovie(um, user, movie) ==
    DictSet(um, user.id, Append(DictGet(um, user.id), movie))

\* Faulty variant of line 92: an existing rating is kept (dict.setdefault).
StoreRating_KeepFirst(mr, user, movie, rating) ==
    IF DictHas(DictGet(mr, movie.id), user.id) THEN mr
    ELSE DictSet(mr, movie.id, DictSet(DictGet(mr, movie.id), user.id, rating))

\* Faulty variant of line 92: a NOT_RATED rating is not stored.
StoreRating_SkipNotRated(mr, user, movie, rating) ==
    IF rating = NOT_RATED THEN mr
    ELSE DictSet(mr, movie.id, DictSet(DictGet(mr, movie.id), user.id, rating))

\* line 92
StoreRating(mr, user, movie, rating) ==
    DictSet(mr, movie.id, DictSet(DictGet(mr, movie.id), user.id, rating))

add_rating(user, movie, rating) ==
    /\ Len(calls) < MaxCalls
    /\ _movies' = RegisterMovie(movie)
    /\ _users' = RegisterUser(user)
    /\ _user_movies' = AppendUserMovie(RegisterUserMovies(user), user, movie)
    /\ _movie_ratings' = StoreRating(RegisterMovieRatings(movie), user, movie, rating)
    /\ calls' = Append(calls, [user |-> user, movie |-> movie, rating |-> rating])
    /\ UNCHANGED bank_vars

get_users == _users

get_movies == _movies

get_user_movies(user) == DictGetDefault(_user_movies, user.id, <<>>)

get_movie_ratings(movie) == DictGetDefault(_movie_ratings, movie.id, <<>>)

\* Faulty variant of lines 99-100: NOT_RATED entries are left out of the mean.
get_average_rating_SkipNotRated(movie) ==
    IF ~DictHas(_movie_ratings, movie.id)
    THEN [num |-> NOT_RATED.value, den |-> 1]
    ELSE LET ratings == SelectSeq(DictValues(DictGet(_movie_ratings, movie.id)),
                                  LAMBDA r : r # NOT_RATED)
         IN [num |-> SumSeq([i \in 1..Len(ratings) |-> ratings[i].value]),
             den |-> Len(ratings)]

\* The average as the fraction num/den (Python computes the float nearest to
\* it); the int 0 of the unknown movie is 0/1.
get_average_rating(movie) ==
    IF ~DictHas(_movie_ratings, movie.id)
    THEN [num |-> NOT_RATED.value, den |-> 1]
    ELSE LET ratings == DictValues(DictGet(_movie_ratings, movie.id))
         IN [num |-> SumSeq([i \in 1..Len(ratings) |-> ratings[i].value]),
             den |-> Len(ratings)]

\* line 100 divides by len(ratings): ZeroDivisionError on an empty rating dict
Raises_get_average_rating(movie) ==
    /\ DictHas(_movie_ratings, movie.id)
    /\ Len(DictGet(_movie_ratings, movie.id)) = 0

----------------------------------------------------------------------------
(* MovieRecommendation                                                     *)

\* a < b on two averages (fractions with positive denominators)
AvgLess(a, b) == a.num * b.den < b.num * a.den

\* max(items, key=get_average_rating): the running maximum after items[i..],
\* replaced only by an item whose key is greater, so the first maximum is kept.
RECURSIVE MaxByAverage(_, _, _)
MaxByAverage(items, i, best) ==
    IF i > Len(items) THEN best
    ELSE MaxByAverage(items, i + 1,
            IF AvgLess(get_average_rating(best), get_average_rating(items[i]))
            THEN items[i] ELSE best)

\* line 138: the value max() returns is an element of get_movies(), a Movie
\* object, or the default None.
_recommend_for_new_user ==
    IF get_movies = <<>> THEN None
    ELSE MovieRef(MaxByAverage(get_movies, 2, get_movies[1]))

\* max() calls the key on every movie of the catalog
Raises_recommend_for_new_user ==
    \E i \in 1..Len(get_movies) : Raises_get_average_rating(get_movies[i])

\* line 157
CommonMovies(user1, user2) ==
    SetOf(get_user_movies(user1)) \cap SetOf(get_user_movies(user2))

\* lines 158-160: the sum over the common movies
RECURSIVE SumOfDifferences(_, _, _)
SumOfDifferences(common_movies, user1, user2) ==
    IF common_movies = {} THEN 0
    ELSE LET movie == CHOOSE m \in common_movies : TRUE
             ratings == get_movie_ratings(movie)
         IN Abs(DictGet(ratings, user1.id).value - DictGet(ratings, user2.id).value)
            + SumOfDifferences(common_movies \ {movie}, user1, user2)

\* Faulty variant of line 160: the "or float('inf')" is missing.
OrInf_Missing(total) == Num(total)

\* "sum(...) or float('inf')": a sum of 0 is falsy, so it yields float("inf")
OrInf(total) == IF total = 0 THEN Inf ELSE Num(total)

_calculate_similarity(user1, user2) ==
    OrInf(SumOfDifferences(CommonMovies(user1, user2), user1, user2))

\* lines 158-159 subscript the rating dict of each common movie: KeyError
Raises_calculate_similarity(user1, user2) ==
    \E movie \in CommonMovies(user1, user2) :
        LET ratings == get_movie_ratings(movie)
        IN ~DictHas(ratings, user1.id) \/ ~DictHas(ratings, user2.id)

\* Faulty variant of line 169: ">=" for ">".
BetterUnwatched_Geq(user_movies, movie, reviewer, best_rating) ==
    /\ movie \notin user_movies
    /\ DictGetDefault(get_movie_ratings(movie), reviewer.id, NOT_RATED).value >= best_rating

\* Faulty variant of line 169: the test "movie not in user_movies" is missing.
BetterUnwatched_Watched(user_movies, movie, reviewer, best_rating) ==
    DictGetDefault(get_movie_ratings(movie), reviewer.id, NOT_RATED).value > best_rating

\* line 169: the condition of the loop body
BetterUnwatched(user_movies, movie, reviewer, best_rating) ==
    /\ movie \notin user_movies
    /\ DictGetDefault(get_movie_ratings(movie), reviewer.id, NOT_RATED).value > best_rating

\* lines 167-171: the loop, from position i on, with the running state
\* (best_movie, best_rating, raised: line 171 met a missing key)
RECURSIVE UnwatchedLoop(_, _, _, _, _)
UnwatchedLoop(user_movies, reviewer_movies, reviewer, i, st) ==
    IF i > Len(reviewer_movies) \/ st.raised THEN st
    ELSE LET movie == reviewer_movies[i]
             ratings == get_movie_ratings(movie)
         IN UnwatchedLoop(user_movies, reviewer_movies, reviewer, i + 1,
                IF BetterUnwatched(user_movies, movie, reviewer, st.best_rating)
                THEN IF DictHas(ratings, reviewer.id)
                     THEN [best_movie |-> MovieRef(movie),
                           best_rating |-> DictGet(ratings, reviewer.id).value,
                           raised |-> FALSE]
                     ELSE [st EXCEPT !.raised = TRUE]
                ELSE st)

UnwatchedResult(user, reviewer) ==
    UnwatchedLoop(SetOf(get_user_movies(user)), get_user_movies(reviewer), reviewer, 1,
                  [best_movie |-> None, best_rating |-> 0, raised |-> FALSE])

_find_unwatched_movie(user, reviewer) == UnwatchedResult(user, reviewer).best_movie

Raises_find_unwatched_movie(user, reviewer) == UnwatchedResult(user, reviewer).raised

\* lines 142-151: the loop over get_users(), from position i on, with the
\* running state (best_movie, lowest_score, raised)
RECURSIVE ReviewerLoop(_, _, _)
ReviewerLoop(user, i, st) ==
    IF i > Len(get_users) \/ st.raised THEN st
    ELSE LET reviewer == get_users[i]
             score == _calculate_similarity(user, reviewer)
             found == UnwatchedResult(user, reviewer)
         IN ReviewerLoop(user, i + 1,
                IF reviewer.id = user.id THEN st
                ELSE IF Raises_calculate_similarity(user, reviewer)
                THEN [st EXCEPT !.raised = TRUE]
                ELSE IF Less(score, st.lowest_score)
                THEN [best_movie |-> found.best_movie,
                      lowest_score |-> score,
                      raised |-> found.raised]
                ELSE st)

ReviewerResult(user) ==
    ReviewerLoop(user, 1, [best_movie |-> None, lowest_score |-> Inf, raised |-> FALSE])

\* line 153: a Movie object is truthy
_recommend_for_existing_user(user) ==
    LET best_movie == ReviewerResult(user).best_movie
    IN IF best_movie # None THEN Str(best_movie.movie.title) ELSE None

Raises_recommend_for_existing_user(user) == ReviewerResult(user).raised

\* lines 132-134: "not []" is true
recommend_movie(user) ==
    IF get_user_movies(user) = <<>>
    THEN _recommend_for_new_user
    ELSE _recommend_for_existing_user(user)

Raises_recommend_movie(user) ==
    IF get_user_movies(user) = <<>>
    THEN Raises_recommend_for_new_user
    ELSE Raises_recommend_for_existing_user(user)

----------------------------------------------------------------------------
(* The bank system.                                                        *)

\* The arguments of the calls in the model.  A branch is opened once at each
\* address and hires a teller id once.
Addresses == {"123 Main St", "456 Elm St"}
InitialFunds == {1, 2}
TellerIds == {1}
CustomerNames == {"John Doe"}
CustomerIdInputs == {-1, 0, 1}
Amounts == {-1, 2}

\* The transactions: Deposit and Withdrawal add _amount to the fields of
\* Transaction, OpenAccount adds nothing.
Deposit(customer_id, teller_id, amount) ==
    [class |-> "Deposit", customer_id |-> customer_id, teller_id |-> teller_id,
     amount |-> amount]

Withdrawal(customer_id, teller_id, amount) ==
    [class |-> "Withdrawal", customer_id |-> customer_id, teller_id |-> teller_id,
     amount |-> amount]

OpenAccount(customer_id, teller_id) ==
    [class |-> "OpenAccount", customer_id |-> customer_id, teller_id |-> teller_id]

\* list[i] is defined for -len(list) <= i < len(list) ...
ValidIndex(list, i) == -Len(list) <= i /\ i < Len(list)

\* ... and a negative i counts from the end; the position, from 1
Position(list, i) == IF i < 0 THEN Len(list) + i + 1 ELSE i + 1

\* BankAccount.deposit
BankAccount_deposit(account, amount) ==
    [account EXCEPT !.balance = account.balance + amount]

\* BankAccount.withdraw: the exception raised ("None": none) and the account
BankAccount_withdraw(account, amount) ==
    IF amount > account.balance
    THEN [raised |-> "ValueError", account |-> account]
    ELSE [raised |-> "None",
          account |-> [account EXCEPT !.balance = account.balance - amount]]

\* AccountManager.get_account raises IndexError on an index out of range
Raises_get_account(customer_id) == ~ValidIndex(_accounts, customer_id)

get_account(customer_id) == _accounts[Position(_accounts, customer_id)]

\* AccountManager.deposit: the exception raised and the accounts
AccountManager_deposit(customer_id, amount) ==
    IF Raises_get_account(customer_id)
    THEN [raised |-> "IndexError", accounts |-> _accounts]
    ELSE [raised |-> "None",
          accounts |-> [_accounts EXCEPT ![Position(_accounts, customer_id)] =
                            BankAccount_deposit(get_account(customer_id), amount)]]

\* AccountManager.withdraw: the exception raised and the accounts
AccountManager_withdraw(customer_id, amount) ==
    IF Raises_get_account(customer_id)
    THEN [raised |-> "IndexError", accounts |-> _accounts]
    ELSE LET done == BankAccount_withdraw(get_account(customer_id), amount)
         IN [raised |-> done.raised,
             accounts |-> [_accounts EXCEPT ![Position(_accounts, customer_id)] =
                               done.account]]

\* BankBranch._get_available_teller: random.choice raises IndexError on an
\* empty list, and otherwise returns any of the tellers
Raises_get_available_teller(b) == _branches[b].tellers = <<>>

AvailableTellers(b) == {_branches[b].tellers[i].id : i \in 1..Len(_branches[b].tellers)}

\* the addresses of the branches
BranchAddresses == {_branches[b].address : b \in 1..Len(_branches)}

\* Bank.add_branch
add_branch(address, initial_funds) ==
    /\ address \notin BranchAddresses
    /\ _branches' = Append(_branches, [address |-> address,
                                       cash_on_hand |-> initial_funds,
                                       tellers |-> <<>>])
    /\ last' = [op |-> "add_branch", raised |-> "None"]
    /\ UNCHANGED <<_accounts, _transactions>>
    /\ UNCHANGED movie_vars

\* BankBranch.add_teller
add_teller(b, teller_id) ==
    /\ teller_id \notin AvailableTellers(b)
    /\ _branches' = [_branches EXCEPT ![b].tellers = Append(@, [id |-> teller_id])]
    /\ last' = [op |-> "add_teller", raised |-> "None"]
    /\ UNCHANGED <<_accounts, _transactions>>
    /\ UNCHANGED movie_vars

\* BankBranch.open_account
open_account(b, customer_name) ==
    /\ \/ /\ Raises_get_available_teller(b)
          /\ last' = [op |-> "open_account", raised |-> "IndexError"]
          /\ UNCHANGED <<_branches, _accounts, _transactions>>
       \/ /\ ~Raises_get_available_teller(b)
          /\ Len(_transactions) < MaxLog
          /\ \E teller_id \in AvailableTellers(b) :
                /\ _accounts' = Append(_accounts, [customer_id |-> Len(_accounts),
                                                   name |-> customer_name,
                                                   balance |-> 0])
                /\ _transactions' = Append(_transactions,
                                           OpenAccount(Len(_accounts), teller_id))
          /\ last' = [op |-> "open_account", raised |-> "None"]
          /\ UNCHANGED _branches
    /\ UNCHANGED movie_vars

\* BankBranch.deposit
deposit(b, customer_id, amount) ==
    /\ \/ /\ Raises_get_available_teller(b)
          /\ last' = [op |-> "deposit", raised |-> "IndexError"]
          /\ UNCHANGED <<_branches, _accounts, _transactions>>
       \/ /\ ~Raises_get_available_teller(b)
          /\ AccountManager_deposit(customer_id, amount).raised # "None"
          /\ last' = [op |-> "deposit",
                      raised |-> AccountManager_deposit(customer_id, amount).raised]
          /\ UNCHANGED <<_branches, _accounts, _transactions>>
       \/ /\ ~Raises_get_available_teller(b)
          /\ AccountManager_deposit(customer_id, amount).raised = "None"
          /\ Len(_transactions) < MaxLog
          /\ \E teller_id \in AvailableTellers(b) :
                _transactions' = Append(_transactions,
                                        Deposit(customer_id, teller_id, amount))
          /\ _accounts' = AccountManager_deposit(customer_id, amount).accounts
          /\ last' = [op |-> "deposit", raised |-> "None"]
          /\ UNCHANGED _branches
    /\ UNCHANGED movie_vars

\* Faulty variant of lines 147-148: the cash is taken before the account
\* manager is asked.
BranchWithdraw_CashFirst(b, customer_id, amount, teller_id) ==
    IF amount > _branches[b].cash_on_hand
    THEN [raised |-> "ValueError", branches |-> _branches, accounts |-> _accounts,
          transactions |-> _transactions]
    ELSE IF Raises_get_available_teller(b)
    THEN [raised |-> "IndexError", branches |-> _branches, accounts |-> _accounts,
          transactions |-> _transactions]
    ELSE LET done == AccountManager_withdraw(customer_id, amount)
             taken == [_branches EXCEPT ![b].cash_on_hand = @ - amount]
         IN IF done.raised # "None"
            THEN [raised |-> done.raised, branches |-> taken,
                  accounts |-> done.accounts, transactions |-> _transactions]
            ELSE [raised |-> "None", branches |-> taken, accounts |-> done.accounts,
                  transactions |-> Append(_transactions,
                                          Withdrawal(customer_id, teller_id, amount))]

\* BankBranch.withdraw, lines 144-149, run with the teller random.choice
\* would return: the exception raised, and the branches, the accounts and the
\* log as the call leaves them.
BranchWithdraw(b, customer_id, amount, teller_id) ==
    IF amount > _branches[b].cash_on_hand
    THEN [raised |-> "ValueError", branches |-> _branches, accounts |-> _accounts,
          transactions |-> _transactions]
    ELSE IF Raises_get_available_teller(b)
    THEN [raised |-> "IndexError", branches |-> _branches, accounts |-> _accounts,
          transactions |-> _transactions]
    ELSE LET done == AccountManager_withdraw(customer_id, amount)
         IN IF done.raised # "None"
            THEN [raised |-> done.raised, branches |-> _branches,
                  accounts |-> done.accounts, transactions |-> _transactions]
            ELSE [raised |-> "None",
                  branches |-> [_branches EXCEPT ![b].cash_on_hand = @ - amount],
                  accounts |-> done.accounts,
                  transactions |-> Append(_transactions,
                                          Withdrawal(customer_id, teller_id, amount))]

\* BankBranch.withdraw.  Without a teller the call raises before teller_id is
\* bound, and BranchWithdraw does not read it.
withdraw(b, customer_id, amount) ==
    /\ \E teller_id \in IF Raises_get_available_teller(b) THEN {None} ELSE AvailableTellers(b) :
        LET done == BranchWithdraw(b, customer_id, amount, teller_id)
        IN /\ Len(done.transactions) <= MaxLog
           /\ _branches' = done.branches
           /\ _accounts' = done.accounts
           /\ _transactions' = done.transactions
           /\ last' = [op |-> "withdraw", raised |-> done.raised, branch |-> b,
                       customer_id |-> customer_id, amount |-> amount]
    /\ UNCHANGED movie_vars

----------------------------------------------------------------------------
Init ==
    /\ _user_movies = <<>>
    /\ _movie_ratings = <<>>
    /\ _movies = <<>>
    /\ _users = <<>>
    /\ calls = <<>>
    /\ _branches = <<>>
    /\ _accounts = <<>>
    /\ _transactions = <<>>
    /\ last = [op |-> "Bank", raised |-> "None"]

Next ==
    \E user \in Users, movie \in Movies, rating \in RatingInputs :
        add_rating(user, movie, rating)

Spec == Init /\ [][Next]_vars

BankNext ==
    \/ \E address \in Addresses, initial_funds \in InitialFunds :
            add_branch(address, initial_funds)
    \/ \E b \in 1..Len(_branches), teller_id \in TellerIds : add_teller(b, teller_id)
    \/ \E b \in 1..Len(_branches), customer_name \in CustomerNames :
            open_account(b, customer_name)
    \/ \E b \in 1..Len(_branches), customer_id \in CustomerIdInputs, amount \in Amounts :
            deposit(b, customer_id, amount)
    \/ \E b \in 1..Len(_branches), customer_id \in CustomerIdInputs, amount \in Amounts :
            withdraw(b, customer_id, amount)

BankSpec == Init /\ [][BankNext]_vars

----------------------------------------------------------------------------
(* What the history of calls says, independently of the indexes.           *)

\* the positions in calls of the add_rating calls for (user, movie)
CallsFor(user, movie) ==
    {i \in 1..Len(calls) : calls[i].user.id = user.id /\ calls[i].movie.id = movie.id}

\* user was passed to add_rating with movie
HasRated(user, movie) ==
    \E i \in 1..Len(calls) : calls[i].user.id = user.id /\ calls[i].movie.id = movie.id

\* the rating of the latest add_rating call for (user, movie)
LatestRating(user, movie) ==
    LET S == CallsFor(user, movie)
    IN calls[CHOOSE i \in S : \A j \in S : j <= i].rating

\* the users who rated movie
RatersOf(movie) == {u \in Users : HasRated(u, movie)}

\* user has rated something
HasHistory(user) == \E m \in Movies : HasRated(user, m)

\* the two users have rated a common movie
SharesMovie(user, reviewer) == \E m \in Movies : HasRated(user, m) /\ HasRated(reviewer, m)

\* occurrences of x in the sequence s
Count(s, x) == Cardinality({i \in 1..Len(s) : s[i] = x})

\* entries of key k in the dict d
CountKey(d, k) == Cardinality({i \in 1..Len(d) : d[i].key = k})

\* the sum of the latest ratings of movie by the users in S
RECURSIVE SumLatest(_, _)
SumLatest(S, movie) ==
    IF S = {} THEN 0
    ELSE LET u == CHOOSE x \in S : TRUE
         IN LatestRating(u, movie).value + SumLatest(S \ {u}, movie)

----------------------------------------------------------------------------
(* C4 *)

\* C4: in every reachable state, the rating map of a movie has an entry for
\* a user id if and only if the movie is in that user's rated-movie sequence.
C4_IndexesAgree ==
    \A u \in Users, m \in Movies :
        DictHas(get_movie_ratings(m), u.id) <=> m \in SetOf(get_user_movies(u))

\* Witness of C4: after a re-rating, one known user has an entry for a movie
\* and another known user has none for the same movie.
C4_Witness ==
    \E u \in Users, r \in Users, m \in Movies :
        /\ Cardinality(CallsFor(u, m)) = 2
        /\ DictHas(get_movie_ratings(m), u.id)
        /\ m \in SetOf(get_user_movies(u))
        /\ r \in SetOf(get_users)
        /\ ~DictHas(get_movie_ratings(m), r.id)
        /\ m \notin SetOf(get_user_movies(r))

----------------------------------------------------------------------------
(* C5 *)

\* C5: when add_rating was called exactly twice for a (user, movie) pair, with
\* two different ratings, the movie's rating map holds the second rating for
\* the user, in exactly one entry; the user's movie list holds the movie
\* twice; the user is once in get_users() and the movie once in get_movies().
C5_OverwriteAndDuplicate ==
    \A u \in Users, m \in Movies :
        \A i \in CallsFor(u, m), j \in CallsFor(u, m) :
            (i < j /\ Cardinality(CallsFor(u, m)) = 2 /\ calls[i].rating # calls[j].rating)
            => /\ DictHas(get_movie_ratings(m), u.id)
               /\ DictGet(get_movie_ratings(m), u.id) = calls[j].rating
               /\ CountKey(get_movie_ratings(m), u.id) = 1
               /\ Count(get_user_movies(u), m) = 2
               /\ Count(get_users, u) = 1
               /\ Count(get_movies, m) = 1

\* Witness of C5: a pair rated THREE and then FIVE, with another call between.
C5_Witness ==
    \E u \in Users, m \in Movies :
        /\ Len(calls) = 3
        /\ CallsFor(u, m) = {1, 3}
        /\ calls[1].rating = THREE
        /\ calls[3].rating = FIVE
        /\ DictGet(get_movie_ratings(m), u.id) = FIVE
        /\ Count(get_user_movies(u), m) = 2

----------------------------------------------------------------------------
(* C6 *)

----------------------------------------------------------------------------
(* C3 *)

\* the position of the first add_rating call for (user, movie): the place of
\* the movie in the user's rated-movie order
FirstCall(user, movie) ==
    LET S == CallsFor(user, movie)
    IN CHOOSE i \in S : \A j \in S : i <= j

\* the movies the reviewer has rated and the user has not
UnwatchedBy(user, reviewer) ==
    {m \in Movies : HasRated(reviewer, m) /\ ~HasRated(user, m)}

\* those of the movies in S with the reviewer's highest current rating
TopRated(S, reviewer) ==
    {m \in S : \A n \in S : LatestRating(reviewer, n).value <= LatestRating(reviewer, m).value}

\* the movie of S the reviewer rated first
EarliestRated(S, reviewer) ==
    CHOOSE m \in S : \A n \in S : FirstCall(reviewer, m) <= FirstCall(reviewer, n)

\* the best unwatched movie as the claim describes it
BestUnwatched(user, reviewer) ==
    LET unwatched == UnwatchedBy(user, reviewer)
    IN IF \A m \in unwatched : LatestRating(reviewer, m).value = 0
       THEN None
       ELSE MovieRef(EarliestRated(TopRated(unwatched, reviewer), reviewer))

\* C3: for any two users, _find_unwatched_movie(user, reviewer) is the movie
\* with the reviewer's highest current rating among those the reviewer has
\* rated and the user has not, the earliest in the reviewer's order among
\* ties, and None when no such movie has a rating greater than 0.
C3_FindUnwatched ==
    \A user \in Users, reviewer \in Users :
        _find_unwatched_movie(user, reviewer) = BestUnwatched(user, reviewer)

\* Witness of C3: the reviewer rated a THREE, b FIVE, then a again FIVE; the
\* user rated neither; a and b tie at FIVE and a, the earlier, is returned.
C3_Witness ==
    \E user \in Users, reviewer \in Users, a \in Movies, b \in Movies :
        /\ a # b
        /\ get_user_movies(reviewer) = <<a, b, a>>
        /\ calls[1].rating = THREE
        /\ LatestRating(reviewer, a) = FIVE
        /\ LatestRating(reviewer, b) = FIVE
        /\ UnwatchedBy(user, reviewer) = {a, b}
        /\ _find_unwatched_movie(user, reviewer) = MovieRef(a)

----------------------------------------------------------------------------
(* C7 *)

\* C7: in every reachable state no query fails, for any user or movie, known
\* to the store or not: get_average_rating never divides by zero, and
\* recommend_movie, _calculate_similarity and _find_unwatched_movie never
\* look up a missing rating (get_user_movies and get_movie_ratings use
\* dict.get with a default, which cannot raise).
C7_QueriesNeverRaise ==
    /\ \A m \in Movies : ~Raises_get_average_rating(m)
    /\ \A u \in Users : ~Raises_recommend_movie(u)
    /\ \A u \in Users, r \in Users :
        ~Raises_calculate_similarity(u, r) /\ ~Raises_find_unwatched_movie(u, r)

\* Witness of C7: a user unknown to the store, a movie whose ratings are all
\* NOT_RATED, and a user for whom both lookups of the similarity path are
\* reached (a shared movie, and an unwatched movie that is taken).
C7_Witness ==
    /\ \E u \in Users : ~DictHas(_user_movies, u.id)
    /\ \E m \in Movies : DictHas(_movie_ratings, m.id) /\ get_average_rating(m).num = 0
    /\ \E u \in Users, r \in Users :
        /\ u # r
        /\ CommonMovies(u, r) # {}
        /\ _find_unwatched_movie(u, r) # None

----------------------------------------------------------------------------
(* C8 *)

\* C8: for a user who has rated a movie, when no other user has rated any
\* movie this user has rated, recommend_movie returns None.
C8_NoOverlapNoRecommendation ==
    \A u \in Users :
        (HasHistory(u) /\ \A r \in Users \ {u} : ~SharesMovie(u, r))
        => recommend_movie(u) = None

\* Witness of C8: such a user, while another user has rated FIVE a movie the
\* user has not rated (the cold-start path would have returned a movie).
C8_Witness ==
    \E u \in Users, r \in Users, m \in Movies :
        /\ HasHistory(u)
        /\ \A x \in Users \ {u} : ~SharesMovie(u, x)
        /\ r # u
        /\ ~HasRated(u, m)
        /\ HasRated(r, m)
        /\ LatestRating(r, m) = FIVE
        /\ _recommend_for_new_user # None
        /\ recommend_movie(u) = None

----------------------------------------------------------------------------
(* C9 *)

\* C9: whenever recommend_movie returns a movie for a user who has rated a
\* movie, the user has not rated that movie, and some other user who shares
\* a rated movie with the user has rated it with a value greater than 0.
C9_RecommendationIsUnwatched ==
    \A u \in Users :
        LET recommended == recommend_movie(u)
        IN (HasHistory(u) /\ recommended # None)
           => /\ recommended.type = "str"
              /\ \E m \in Movies :
                /\ m.title = recommended.str
                /\ ~HasRated(u, m)
                /\ \E r \in Users \ {u} :
                    /\ SharesMovie(u, r)
                    /\ HasRated(r, m)
                    /\ LatestRating(r, m).value > 0

\* Witness of C9: a user with history is recommended a movie by title.
C9_Witness ==
    \E u \in Users, m \in Movies :
        /\ HasHistory(u)
        /\ ~HasRated(u, m)
        /\ recommend_movie(u) = Str(m.title)

----------------------------------------------------------------------------
(* C1 *)

\* the movies both users have rated
SharedMovies(user, reviewer) == {m \in Movies : HasRated(user, m) /\ HasRated(reviewer, m)}

\* the sum, over the movies in S, of the absolute difference of the two
\* users' ratings
RECURSIVE SumAbsDiff(_, _, _)
SumAbsDiff(S, user, reviewer) ==
    IF S = {} THEN 0
    ELSE LET m == CHOOSE x \in S : TRUE
         IN Abs(LatestRating(user, m).value - LatestRating(reviewer, m).value)
            + SumAbsDiff(S \ {m}, user, reviewer)

\* the dissimilarity score as the claim describes it: infinite only when the
\* two users share no rated movie
DissimilarityScore(user, reviewer) ==
    IF SharedMovies(user, reviewer) = {} THEN Inf
    ELSE Num(SumAbsDiff(SharedMovies(user, reviewer), user, reviewer))

\* the positions in get_users() of the other users with a finite score
FiniteReviewers(user) ==
    {i \in 1..Len(get_users) :
        /\ get_users[i].id # user.id
        /\ ~DissimilarityScore(user, get_users[i]).inf}

\* the first position, in get_users() order, with the lowest score
BestReviewer(user) ==
    CHOOSE i \in FiniteReviewers(user) :
        \A j \in FiniteReviewers(user) :
            \/ Less(DissimilarityScore(user, get_users[i]), DissimilarityScore(user, get_users[j]))
            \/ /\ DissimilarityScore(user, get_users[i]) = DissimilarityScore(user, get_users[j])
               /\ i <= j

\* the recommendation as the claim describes it
SimilarityRecommendation(user) ==
    IF FiniteReviewers(user) = {} THEN None
    ELSE LET best_movie == BestUnwatched(user, get_users[BestReviewer(user)])
         IN IF best_movie = None THEN None ELSE Str(best_movie.movie.title)

\* C1: for a user who has rated a movie, recommend_movie returns the best
\* unwatched movie of the other user with the strictly lowest dissimilarity
\* score (the first in get_users() order on ties), the score being the sum
\* of the absolute rating differences over the shared movies and infinite
\* only when no movie is shared, so that a score of 0 beats every other.
C1_MostSimilarReviewer ==
    \A u \in Users : HasHistory(u) => recommend_movie(u) = SimilarityRecommendation(u)

----------------------------------------------------------------------------
(* C2 *)

\* a < b on the means of two rated movies, from the history
MeanLess(a, b) ==
    SumLatest(RatersOf(a), a) * Cardinality(RatersOf(b))
        < SumLatest(RatersOf(b), b) * Cardinality(RatersOf(a))

\* the first movie of the catalog among those of maximal average rating
BestOfCatalog ==
    get_movies[CHOOSE i \in 1..Len(get_movies) :
        /\ \A j \in 1..Len(get_movies) : ~MeanLess(get_movies[i], get_movies[j])
        /\ \A j \in 1..(i - 1) : MeanLess(get_movies[j], get_movies[i])]

\* C2: for a user with no recorded ratings, recommend_movie returns the
\* title, a str, of the movie of the catalog with the highest average rating
\* (the first added among those tied), and None when the catalog is empty.
C2_ColdStartTitle ==
    \A u \in Users :
        ~HasHistory(u)
        => recommend_movie(u) = IF get_movies = <<>> THEN None ELSE Str(BestOfCatalog.title)

----------------------------------------------------------------------------
(* C10 *)

\* C10: a BankBranch.withdraw call that raises leaves every account, every
\* branch and the transaction log as they were; one that returns decreases
\* the balance of the account and the cash on hand of the branch by exactly
\* amount, leaves the other accounts and branches alone, and appends exactly
\* one Withdrawal, of that account and amount, to the log.
C10_WithdrawAllOrNothing ==
    [][last'.op = "withdraw"
       => IF last'.raised # "None"
          THEN /\ _accounts' = _accounts
               /\ _branches' = _branches
               /\ _transactions' = _transactions
          ELSE /\ ValidIndex(_accounts, last'.customer_id)
               /\ _accounts' = [_accounts EXCEPT
                                   ![Position(_accounts, last'.customer_id)].balance =
                                       @ - last'.amount]
               /\ _branches' = [_branches EXCEPT
                                   ![last'.branch].cash_on_hand = @ - last'.amount]
               /\ Len(_transactions') = Len(_transactions) + 1
               /\ SubSeq(_transactions', 1, Len(_transactions)) = _transactions
               /\ _transactions'[Len(_transactions')].class = "Withdrawal"
               /\ _transactions'[Len(_transactions')].customer_id = last'.customer_id
               /\ _transactions'[Len(_transactions')].amount = last'.amount]_vars

\* Witness of C10: a withdraw has just raised ValueError in the account (the
\* branch had the cash and a teller, the account exists and holds a deposit,
\* but less than the amount), in a bank of two branches.
C10_Witness ==
    /\ last.op = "withdraw"
    /\ last.raised = "ValueError"
    /\ Len(_branches) = 2
    /\ last.amount <= _branches[last.branch].cash_on_hand
    /\ ~Raises_get_available_teller(last.branch)
    /\ ~Raises_get_account(last.customer_id)
    /\ get_account(last.customer_id).balance > 0
    /\ last.amount > get_account(last.customer_id).balance

\* A withdraw has just returned, of a positive amount, at one of two branches,
\* the other of which has no teller.
C10_SuccessReached ==
    /\ last.op = "withdraw"
    /\ last.raised = "None"
    /\ last.amount = 2
    /\ Len(_branches) = 2
    /\ _branches[last.branch].cash_on_hand = 0
    /\ _branches[3 - last.branch].cash_on_hand = 1
    /\ _transactions[1].class = "OpenAccount"
    /\ _transactions[1].customer_id = last.customer_id
    /\ Raises_get_available_teller(3 - last.branch)
    /\ _transactions[Len(_transactions)].class = "Withdrawal"

\* A withdraw has just raised ValueError in the branch: the branch holds less
\* cash than the amount, while the account holds enough.
C10_BranchShortReached ==
    /\ last.op = "withdraw"
    /\ last.raised = "ValueError"
    /\ last.amount > _branches[last.branch].cash_on_hand
    /\ ~Raises_get_available_teller(last.branch)
    /\ ~Raises_get_account(last.customer_id)
    /\ last.amount <= get_account(last.customer_id).balance

\* A withdraw has just raised IndexError: the branch has a teller, and the bank
\* an account, but not at that index.
C10_NoAccountReached ==
    /\ last.op = "withdraw"
    /\ last.raised = "IndexError"
    /\ ~Raises_get_available_teller(last.branch)
    /\ _accounts # <<>>
    /\ Raises_get_account(last.customer_id)

\* A withdraw has just raised IndexError: the branch has no teller.
C10_NoTellerReached ==
    /\ last.op = "withdraw"
    /\ last.raised = "IndexError"
    /\ Raises_get_available_teller(last.branch)
    /\ ~Raises_get_account(last.customer_id)
    /\ last.amount <= get_account(last.customer_id).balance

====
